---- MODULE Spec2Model ----
(***************************************************************************)
(* A model of the client-side timing core of the practice tracker:         *)
(*   - the metronome engine (hooks/useMetronome.ts),                       *)
(*   - the practice-session timers (PracticeTimer, MobilePracticeTimer,    *)
(*     MobileOptimizedTimer).                                              *)
(*                                                                         *)
(* React state is modelled as committed at the end of the handler that     *)
(* sets it: a handler invoked by a later event reads the latest state,     *)
(* while the continuation of an async handler after an await, and every    *)
(* timer callback, keeps the values its closure captured when it was       *)
(* created.  Closures are therefore explicit records in the model.         *)
(***************************************************************************)
EXTENDS Integers, Sequences, FiniteSets, TLC

\* ------------------------------------------------------------------------
\* Program constants
\* ------------------------------------------------------------------------
BpmMin == 40
BpmMax == 200
BpmDefault == 120
VolumeDefault == 100
TimeSignatureDefault == 4
MsPerMinute == 60000
AccentFrequency == 800
RegularFrequency == 400
AccentGainTenths == 12
RegularGainTenths == 10

\* ------------------------------------------------------------------------
\* Bounds of the model
\* ------------------------------------------------------------------------
MaxBeats == 7
MaxPending == 2
MaxRestarts == 1
MaxToggleResets == 2
\* The wall clock is observed in whole seconds up to MaxNow; it advances by
\* single ticks (at most UnitTicks of them after each multiple of Quantum)
\* or by Quantum seconds at once.
MaxNow == 92
Quantum == 45
UnitTicks == 2
MaxPauses == 2
MaxPlayPauses == 1
MaxStops == 1
\* enableWakeLock calls in flight at once; native locks held at once.
MaxEnables == 2
MaxLocks == 2
\* Save timers of a slider live at once; onChange calls counted in one
\* interaction.
MaxSaveTimers == 3
MaxChanges == 3
\* Ticks of the practice timer while the notes field is observed; updates
\* of the notes in flight at once.
MaxNoteTicks == 3
MaxUpdates == 2

Sounds == {"click", "beep", "wood", "digital"}
TimeSignatures == {2, 3, 4, 6}

VARIABLES
  \* ---- useMetronome ----
  isPlaying,            \* useState isPlaying
  settings,             \* useState settings
  audioCtx,             \* audioContextRef: "none" | "suspended" | "running"
  intervalRef,          \* id of the timer intervalRef holds, 0 for null
  intervals,            \* the live setInterval timers, each with its closure
  beatCountRef,
  currentBeat,
  startInProgressRef,
  pendingStarts,        \* start() calls suspended at `await resume()`
  toggleInProgressRef,
  toggleResets,         \* pending 100 ms timers that reset toggleInProgressRef
  restartTimers,        \* pending 50 ms timers of updateSettings, with closure
  \* ---- observation of the metronome (history) ----
  lastEv,               \* the last call or callback and what it did
  lastPulse,            \* the last pulse handed to createSound
  pulsesSinceStart,     \* pulses emitted since the last scheduling start
  startedWith,          \* the settings current when that start() was called
  sinceStop,            \* "na" | "quiet" | "active": what followed a stop()
  restartDue,           \* bpm of an updateSettings restart not yet overtaken
  \* ---- the mounted practice timer ----
  comp,                 \* which timer component is mounted
  mounted,
  user,                 \* useAuth().user is set
  now,                  \* wall clock (new Date()), in seconds
  seconds,              \* useState seconds (time in MobileOptimizedTimer)
  isRunning,
  isPaused,
  isSaving,
  session,              \* sessionRef.current
  tickInterval,         \* MobileOptimizedTimer's intervalRef holds a timer
  playPauses,           \* handlePlayPause calls awaiting enableWakeLock()
  stops,                \* handleStop calls awaiting the insert or the release
  \* ---- observation of the timer (history) ----
  ranFor,               \* wall-clock seconds spent Running since start
  lastInsert,           \* the last practice_sessions insert issued
  stopLog,              \* what the last handleStop call has done so far
  \* ---- useScreenWakeLock ----
  wake,                 \* isWakeLockActive, the refs, the mechanisms, the
                        \* enableWakeLock calls in flight
  platform,             \* which mechanisms the browser offers
  visible,              \* document.visibilityState === 'visible'
  \* ---- observation of the wake lock (history) ----
  wakeEv,               \* the last operation and what it did
  \* ---- the component whose teardown is observed ----
  host,                 \* the hook it uses, mounted, callbacks fired after
                        \* the unmount
  \* ---- useDebouncedSlider ----
  slider,               \* state, refs and the live save timers
  \* ---- observation of the slider (history) ----
  sliderEv,             \* the last call or callback and what it did
  sliderRun,            \* the debounce window and the interaction under way
  \* ---- the notes field of PracticeTimer ----
  notes,                \* songNotes, song.notes, the debounce timer, the
                        \* updates in flight
  notesEv,              \* (history) the last operation and the text typed
  \* ---- useKeyboardShortcuts ----
  kbd,                  \* the props of the hook and its keydown listener
  kbdEv                 \* (history) the last keydown and what it invoked

metVars == <<isPlaying, settings, audioCtx, intervalRef, intervals,
             beatCountRef, currentBeat, startInProgressRef, pendingStarts,
             toggleInProgressRef, toggleResets, restartTimers>>
metHist == <<lastEv, lastPulse, pulsesSinceStart, startedWith, sinceStop,
             restartDue>>
timVars == <<comp, mounted, user, now, seconds, isRunning, isPaused, isSaving,
             session, tickInterval, playPauses, stops>>
timHist == <<ranFor, lastInsert, stopLog>>
wakeVars == <<wake, platform, visible, wakeEv>>
sliderVars == <<slider, sliderEv, sliderRun>>
notesVars == <<notes, notesEv>>
kbdVars == <<kbd, kbdEv>>
vars == <<metVars, metHist, timVars, timHist, wakeVars, host, sliderVars,
          notesVars, kbdVars>>

\* ------------------------------------------------------------------------
\* useMetronome: pure parts
\* ------------------------------------------------------------------------
DefaultSettings ==
  [bpm |-> BpmDefault, volume |-> VolumeDefault, sound |-> "click",
   accent |-> TRUE, timeSignature |-> TimeSignatureDefault]

\* { ...prev, ...newSettings }
Merge(prev, partial) ==
  [k \in DOMAIN prev |-> IF k \in DOMAIN partial THEN partial[k] ELSE prev[k]]

\* The tempo conversion with beats per second taken for the period.
IntervalMsInverted(bpm) == [num |-> bpm * 1000, den |-> 60]

\* 60000 / bpm as the exact quotient num/den (JavaScript divides in floating
\* point; the value handed to setInterval is this quotient).
IntervalMs(bpm) == [num |-> MsPerMinute, den |-> bpm]

IsAccentBeat(s, beatCount) == s.accent /\ (beatCount % s.timeSignature = 0)

\* createSound's switch on settings.sound: waveform and frequency in Hz * 2
\* (the factor 0.5 of 'wood' kept exact).
Waveform(sound) ==
  CASE sound = "click" -> "square"
    [] sound = "beep" -> "sine"
    [] sound = "wood" -> "sawtooth"
    [] OTHER -> "triangle"

FrequencyTimes2(sound, frequency) ==
  CASE sound = "click" -> frequency * 4
    [] sound = "wood" -> frequency
    [] OTHER -> frequency * 2

\* The pulse synthesised from closure settings s at beat count n: the body
\* shared by playBeat and the interval callback.  gain is in 1/1000.
Pulse(s, n, by) ==
  LET acc == IsAccentBeat(s, n)
      frequency == IF acc THEN AccentFrequency ELSE RegularFrequency IN
  [accent |-> acc,
   frequency |-> frequency,
   gain |-> s.volume * (IF acc THEN AccentGainTenths ELSE RegularGainTenths),
   wave |-> Waveform(s.sound),
   hz2 |-> FrequencyTimes2(s.sound, frequency),
   beat |-> n,
   by |-> by]

NoPulse == [by |-> "none"]

\* Smallest timer id not in use.
FreshId == CHOOSE i \in 1..(Cardinality(intervals) + 1) :
              \A t \in intervals : t.id # i


\* ------------------------------------------------------------------------
\* useMetronome: start()
\* ------------------------------------------------------------------------
\* start() without the startInProgressRef test.
StartGuardClosureOnly(cIsPlaying) == cIsPlaying

\* The early return of start(): the closure's isPlaying or the shared ref.
StartGuard(cIsPlaying) == cIsPlaying \/ startInProgressRef

\* setIsPlaying(true); beatCountRef = 0; playBeat(); setInterval(...):
\* the first pulse is synthesised at once from closure c, then the interval
\* is created with the same closure; intervalRef is overwritten, a timer it
\* held before is not cleared here.
Schedule(c, live) ==
  /\ isPlaying' = TRUE
  /\ lastPulse' = Pulse(c, 0, "start")
  /\ beatCountRef' = 1
  /\ pulsesSinceStart' = 1
  /\ startedWith' = live
  /\ intervals' = intervals \cup
                   {[id |-> FreshId, period |-> IntervalMs(c.bpm), s |-> c]}
  /\ intervalRef' = FreshId

\* The failure path without the finally block.
StartFailedNoFinally ==
  /\ isPlaying' = FALSE
  /\ startInProgressRef' = TRUE
  /\ UNCHANGED <<intervalRef, intervals, beatCountRef, lastPulse,
                 pulsesSinceStart, startedWith>>

\* catch: setIsPlaying(false); throw; finally: startInProgressRef = false.
StartFailed ==
  /\ isPlaying' = FALSE
  /\ startInProgressRef' = FALSE
  /\ UNCHANGED <<intervalRef, intervals, beatCountRef, lastPulse,
                 pulsesSinceStart, startedWith>>

\* One call of start() whose closure holds isPlaying = cIsPlaying and the
\* settings c; live are the settings current at the call; create is what
\* `new AudioContext()` does when audioContextRef is empty.  res names the
\* outcome: "noop" (early return), "rejected", "pending" (suspended at the
\* await of resume()), "started".
StartCall(cIsPlaying, c, live, via, create, res) ==
  IF StartGuard(cIsPlaying)
  THEN /\ res = "noop"
       /\ UNCHANGED <<isPlaying, audioCtx, intervalRef, intervals,
                      beatCountRef, startInProgressRef, pendingStarts,
                      lastPulse, pulsesSinceStart, startedWith>>
  ELSE LET ctx == IF audioCtx = "none" THEN create ELSE audioCtx IN
       CASE ctx = "throw" ->
              /\ res = "rejected"
              /\ StartFailed
              /\ UNCHANGED <<audioCtx, pendingStarts>>
         [] ctx = "suspended" ->
              /\ res = "pending"
              /\ Len(pendingStarts) < MaxPending
              /\ startInProgressRef' = TRUE
              /\ audioCtx' = "suspended"
              /\ pendingStarts' =
                   Append(pendingStarts, [s |-> c, live |-> live, via |-> via])
              /\ UNCHANGED <<isPlaying, intervalRef, intervals, beatCountRef,
                             lastPulse, pulsesSinceStart, startedWith>>
         [] OTHER ->
              /\ res = "started"
              /\ audioCtx' = "running"
              /\ Schedule(c, live)
              /\ startInProgressRef' = FALSE
              /\ UNCHANGED pendingStarts

StartResults == {"noop", "rejected", "pending", "started"}
CreateOutcomes == {"throw", "suspended", "running"}

\* start() called by an event handler of the current render.
Start ==
  \E create \in CreateOutcomes, res \in StartResults :
    /\ StartCall(isPlaying, settings, settings, "direct", create, res)
    /\ lastEv' = [op |-> "start", res |-> res]
    /\ sinceStop' = "na"
    /\ restartDue' = 0
    /\ UNCHANGED <<settings, currentBeat, toggleInProgressRef, toggleResets,
                   restartTimers>>

\* The awaited resume() of the oldest suspended start() resolves: the rest
\* of its try block runs with the closure of the call.
ResumeResolves ==
  /\ pendingStarts # <<>>
  /\ LET p == Head(pendingStarts) IN
     /\ audioCtx' = "running"
     /\ Schedule(p.s, p.live)
     /\ startInProgressRef' = FALSE
     /\ pendingStarts' = Tail(pendingStarts)
     /\ toggleResets' = IF p.via = "toggle" THEN toggleResets + 1
                        ELSE toggleResets
     /\ lastEv' = [op |-> "resume", res |-> "started"]
  /\ sinceStop' = IF sinceStop = "quiet" THEN "active" ELSE sinceStop
  /\ UNCHANGED <<settings, currentBeat, toggleInProgressRef, restartTimers,
                 restartDue>>

\* The awaited resume() rejects.
ResumeRejects ==
  /\ pendingStarts # <<>>
  /\ LET p == Head(pendingStarts) IN
     /\ StartFailed
     /\ pendingStarts' = Tail(pendingStarts)
     /\ toggleResets' = IF p.via = "toggle" THEN toggleResets + 1
                        ELSE toggleResets
     /\ lastEv' = [op |-> "resume", res |-> "rejected"]
  /\ UNCHANGED <<settings, audioCtx, currentBeat, toggleInProgressRef,
                 restartTimers, sinceStop, restartDue>>

\* ------------------------------------------------------------------------
\* useMetronome: the interval callback, stop(), toggle(), updateSettings()
\* ------------------------------------------------------------------------
\* One firing of a live interval timer: the pulse is computed from the
\* settings its closure captured and from the shared beat counter.
IntervalFires ==
  \E t \in intervals :
    /\ beatCountRef < MaxBeats
    /\ lastPulse' = Pulse(t.s, beatCountRef, "interval")
    /\ beatCountRef' = beatCountRef + 1
    /\ currentBeat' = ((beatCountRef + 1) % t.s.timeSignature) + 1
    /\ pulsesSinceStart' = pulsesSinceStart + 1
    /\ lastEv' = [op |-> "pulse", res |-> "interval"]
    /\ sinceStop' = IF sinceStop = "quiet" THEN "active" ELSE sinceStop
    /\ UNCHANGED <<isPlaying, settings, audioCtx, intervalRef, intervals,
                   startInProgressRef, pendingStarts, toggleInProgressRef,
                   toggleResets, restartTimers, startedWith, restartDue>>

\* The body of stop(): clears the timer intervalRef holds, nothing else.
StopBody ==
  /\ intervals' = {t \in intervals : t.id # intervalRef}
  /\ intervalRef' = 0
  /\ isPlaying' = FALSE
  /\ currentBeat' = 0

Stop ==
  /\ StopBody
  /\ lastEv' = [op |-> "stop", res |-> "stopped"]
  /\ sinceStop' = "quiet"
  /\ restartDue' = 0
  /\ UNCHANGED <<settings, audioCtx, beatCountRef, startInProgressRef,
                 pendingStarts, toggleInProgressRef, toggleResets,
                 restartTimers, lastPulse, pulsesSinceStart, startedWith>>

\* toggle() without its re-entrancy test.
ToggleGuardOff == FALSE

\* The re-entrancy guard of toggle().
ToggleGuard == toggleInProgressRef

\* toggle() called by an event handler of the current render.  The finally
\* block schedules the 100 ms reset once the awaited start() has settled.
Toggle ==
  IF ToggleGuard
  THEN /\ lastEv' = [op |-> "toggle", res |-> "ignored"]
       /\ UNCHANGED <<metVars, lastPulse, pulsesSinceStart, startedWith,
                      sinceStop, restartDue>>
  ELSE /\ toggleResets < MaxToggleResets
       /\ toggleInProgressRef' = TRUE
       /\ restartDue' = 0
       /\ IF isPlaying
          THEN /\ StopBody
               /\ toggleResets' = toggleResets + 1
               /\ lastEv' = [op |-> "toggle", res |-> "stopped"]
               /\ sinceStop' = "quiet"
               /\ UNCHANGED <<settings, audioCtx, beatCountRef,
                              startInProgressRef, pendingStarts,
                              restartTimers, lastPulse, pulsesSinceStart,
                              startedWith>>
          ELSE \E create \in CreateOutcomes, res \in StartResults :
                 /\ StartCall(isPlaying, settings, settings, "toggle",
                              create, res)
                 /\ toggleResets' = IF res = "pending" THEN toggleResets
                                    ELSE toggleResets + 1
                 /\ lastEv' = [op |-> "toggle", res |-> res]
                 /\ sinceStop' = "na"
                 /\ UNCHANGED <<settings, currentBeat, restartTimers>>

\* The 100 ms timer of toggle()'s finally block fires.
ToggleResetFires ==
  /\ toggleResets > 0
  /\ toggleResets' = toggleResets - 1
  /\ toggleInProgressRef' = FALSE
  /\ lastEv' = [op |-> "toggleReset", res |-> "reset"]
  /\ UNCHANGED <<isPlaying, settings, audioCtx, intervalRef, intervals,
                 beatCountRef, currentBeat, startInProgressRef, pendingStarts,
                 restartTimers, lastPulse, pulsesSinceStart, startedWith,
                 sinceStop, restartDue>>

\* `newSettings.bpm && isPlaying`: a bpm key with a truthy value.
RestartWanted(partial) ==
  /\ "bpm" \in DOMAIN partial
  /\ partial.bpm # 0
  /\ isPlaying

\* updateSettings(partial) called by a handler of the current render.  The
\* 50 ms timer keeps the start of this render: its closure holds the
\* isPlaying and the settings of the render, not those of the update.
UpdateSettings(partial) ==
  /\ settings' = Merge(settings, partial)
  /\ IF RestartWanted(partial)
     THEN /\ Len(restartTimers) < MaxRestarts
          /\ StopBody
          /\ restartTimers' =
               Append(restartTimers, [isPlaying |-> isPlaying, s |-> settings])
          /\ restartDue' = partial.bpm
          /\ sinceStop' = "quiet"
          /\ lastEv' = [op |-> "updateSettings", res |-> "restart"]
     ELSE /\ UNCHANGED <<isPlaying, intervalRef, intervals, currentBeat,
                         restartTimers, sinceStop>>
          /\ restartDue' = 0
          /\ lastEv' = [op |-> "updateSettings", res |-> "merged"]
  /\ UNCHANGED <<audioCtx, beatCountRef, startInProgressRef, pendingStarts,
                 toggleInProgressRef, toggleResets, lastPulse,
                 pulsesSinceStart, startedWith>>

\* The 50 ms timer of updateSettings fires: start() of the captured render.
RestartFires ==
  /\ restartTimers # <<>>
  /\ LET c == Head(restartTimers) IN
     \E create \in CreateOutcomes, res \in StartResults :
       /\ StartCall(c.isPlaying, c.s, settings, "restart", create, res)
       /\ lastEv' = [op |-> "restart", res |-> res]
  /\ restartTimers' = Tail(restartTimers)
  /\ sinceStop' = "na"
  /\ UNCHANGED <<settings, currentBeat, toggleInProgressRef, toggleResets,
                 restartDue>>

\* The platform suspends a running audio context (start() tests for this
\* state at every call).
AudioSuspended ==
  /\ audioCtx = "running"
  /\ pendingStarts = <<>>
  /\ audioCtx' = "suspended"
  /\ lastEv' = [op |-> "audio", res |-> "suspended"]
  /\ UNCHANGED <<isPlaying, settings, intervalRef, intervals, beatCountRef,
                 currentBeat, startInProgressRef, pendingStarts,
                 toggleInProgressRef, toggleResets, restartTimers, lastPulse,
                 pulsesSinceStart, startedWith, sinceStop, restartDue>>

\* ------------------------------------------------------------------------
\* The practice timers: shared parts
\* ------------------------------------------------------------------------
PT == "PracticeTimer"
MPT == "MobilePracticeTimer"
MOT == "MobileOptimizedTimer"
Components == {PT, MPT, MOT}

\* The missing `end` of an open pause, the missing endTime of a session.
NoEnd == -1

\* { startTime: new Date(), duration: 0, notes, pauses: [] }
FreshSession(t) ==
  [startTime |-> t, endTime |-> NoEnd, duration |-> 0, pauses |-> <<>>]

\* lastPause = pauses[pauses.length - 1]; if (lastPause && !lastPause.end)
\* lastPause.end = new Date()
CloseLast(pauses, t) ==
  IF pauses # <<>> /\ pauses[Len(pauses)].end = NoEnd
  THEN [pauses EXCEPT ![Len(pauses)].end = t]
  ELSE pauses

\* pauses.push({ start: new Date() })
PushPause(pauses, t) == Append(pauses, [start |-> t, end |-> NoEnd])

\* Math.round(x / 60) for an integer x >= 0 (halves round up).
Round60(x) == (x + 30) \div 60

Max(a, b) == IF a >= b THEN a ELSE b

\* MobilePracticeTimer: the forEach over session.pauses, `pause.end ||
\* endTime` for an open pause.
RECURSIVE TotalPauseTime(_, _)
TotalPauseTime(pauses, endTime) ==
  IF pauses = <<>> THEN 0
  ELSE LET p == Head(pauses)
           pauseEnd == IF p.end = NoEnd THEN endTime ELSE p.end IN
       (pauseEnd - p.start) + TotalPauseTime(Tail(pauses), endTime)

\* PracticeTimer: Math.max(1, Math.round(seconds / 60)).
PTDurationMinutes(secs) == Max(1, Round60(secs))

\* MobilePracticeTimer: Math.round(practiceTime / (1000 * 60)) with
\* practiceTime = max(0, (endTime - startTime) - totalPauseTime).
MPTDurationMinutes(sess, endTime) ==
  Round60(Max(0, (endTime - sess.startTime)
                   - TotalPauseTime(sess.pauses, endTime)))

\* MobileOptimizedTimer: Math.round(session.duration / 60).
MOTDurationMinutes(sess) == Round60(sess.duration)

\* The 1 s interval of the mounted timer is live: the timer effect of
\* PracticeTimer and MobilePracticeTimer keeps one exactly while running and
\* not paused; MobileOptimizedTimer's handlers set and clear intervalRef.
TickLive ==
  /\ mounted
  /\ IF comp = MOT THEN tickInterval ELSE isRunning /\ ~isPaused

\* The session states of the specification in terms of the two flags
\* (MobileOptimizedTimer clears isRunning when it pauses).
Running == IF comp = MOT THEN isRunning ELSE isRunning /\ ~isPaused
Paused == IF comp = MOT THEN isPaused ELSE isRunning /\ isPaused

NoInsert == [by |-> "none"]

\* What one handleStop call has done: the inserts it issued and how the
\* insert settled, the refresh events it dispatched, the toasts it showed.
NoStop == [by |-> "none"]

StopLogged(signedIn, ticks, inserts) ==
  [by |-> comp, signedIn |-> signedIn, ticks |-> ticks, inserts |-> inserts,
   outcome |-> IF inserts = 0 THEN "none" ELSE "pending",
   refreshAnalytics |-> 0, refreshGoals |-> 0,
   successToasts |-> 0, errorToasts |-> 0]

\* window.dispatchEvent(new CustomEvent('refreshAnalytics')), then
\* 'refreshGoals'.
Dispatched(log) ==
  [log EXCEPT !.refreshAnalytics = @ + 1, !.refreshGoals = @ + 1]

SuccessToast(log) == [log EXCEPT !.successToasts = @ + 1]
ErrorToast(log) == [log EXCEPT !.errorToasts = @ + 1]
Settled(log, ok) == [log EXCEPT !.outcome = IF ok THEN "ok" ELSE "failed"]

\* ------------------------------------------------------------------------
\* The clock and the tick
\* ------------------------------------------------------------------------
\* n firings of the interval callback, one per second, with no other event
\* in between: setSeconds(prev => prev + 1) each; PracticeTimer and
\* MobileOptimizedTimer also store the count in session.duration.
Ticks(n) ==
  /\ TickLive
  /\ now + n <= MaxNow
  /\ now' = now + n
  /\ seconds' = seconds + n
  /\ session' = IF comp = MPT THEN session
                ELSE [session EXCEPT !.duration = seconds + n]
  /\ ranFor' = IF Running THEN ranFor + n ELSE ranFor
  /\ UNCHANGED <<comp, mounted, user, isRunning, isPaused, isSaving,
                 tickInterval, playPauses, stops, lastInsert, stopLog>>

Tick ==
  /\ (now % Quantum) < UnitTicks
  /\ Ticks(1)

TicksForQuantum == Ticks(Quantum)

\* Quantum seconds pass and no interval callback runs: no timer is live, or
\* the live one is late (a re-armed or throttled interval).
TimePasses ==
  /\ now + Quantum <= MaxNow
  /\ now' = now + Quantum
  /\ ranFor' = IF mounted /\ Running THEN ranFor + Quantum ELSE ranFor
  /\ UNCHANGED <<comp, mounted, user, seconds, isRunning, isPaused, isSaving,
                 session, tickInterval, playPauses, stops, lastInsert, stopLog>>

\* ------------------------------------------------------------------------
\* PracticeTimer and MobilePracticeTimer: handlePlayPause
\* ------------------------------------------------------------------------
\* handlePlayPause called by the button or the space key of the current
\* render.  The start and the resume branch suspend at `await
\* enableWakeLock()`; the pause branch runs to its end.
HandlePlayPause ==
  /\ mounted
  /\ comp \in {PT, MPT}
  /\ IF ~isRunning
     THEN /\ Len(playPauses) < MaxPlayPauses
          /\ playPauses' = Append(playPauses, "start")
          /\ UNCHANGED <<isPaused, session>>
     ELSE IF ~isPaused
     THEN /\ Len(session.pauses) < MaxPauses
          /\ isPaused' = TRUE
          /\ session' = [session EXCEPT !.pauses = PushPause(@, now)]
          /\ UNCHANGED playPauses
     ELSE /\ Len(playPauses) < MaxPlayPauses
          /\ playPauses' = Append(playPauses, "resume")
          /\ UNCHANGED <<isPaused, session>>
  /\ UNCHANGED <<comp, mounted, user, now, seconds, isRunning, isSaving,
                 tickInterval, stops, ranFor, lastInsert, stopLog>>

\* enableWakeLock() has settled (it resolves true or false, it never
\* rejects) and the branch the call took runs on.  PracticeTimer's start
\* branch closes an open last pause; MobilePracticeTimer's sets startTime.
PlayPauseContinues ==
  /\ playPauses # <<>>
  /\ LET branch == Head(playPauses) IN
     IF branch = "start"
     THEN /\ isRunning' = TRUE
          /\ isPaused' = FALSE
          /\ session' =
               IF comp = PT
               THEN [session EXCEPT !.pauses = CloseLast(@, now)]
               ELSE [session EXCEPT !.startTime = now]
          /\ ranFor' = IF ~isRunning THEN 0 ELSE ranFor
     ELSE /\ isPaused' = FALSE
          /\ session' = [session EXCEPT !.pauses = CloseLast(@, now)]
          /\ UNCHANGED <<isRunning, ranFor>>
  /\ playPauses' = Tail(playPauses)
  /\ UNCHANGED <<comp, mounted, user, now, seconds, isSaving, tickInterval,
                 stops, lastInsert, stopLog>>

\* ------------------------------------------------------------------------
\* PracticeTimer: handleStop and savePracticeSession
\* ------------------------------------------------------------------------
\* The Stop button is disabled while seconds === 0 || isSaving.
StopEnabled == mounted /\ seconds # 0 /\ ~isSaving

\* savePracticeSession returns at once: `!user || seconds === 0`.
SaveSkipped == ~user \/ seconds = 0

PTHandleStop ==
  /\ comp = PT
  /\ StopEnabled
  /\ isRunning' = FALSE
  /\ isPaused' = FALSE
  /\ IF SaveSkipped
     THEN \* disableWakeLock(); setSeconds(0); a new session
          /\ seconds' = 0
          /\ session' = FreshSession(now)
          /\ stopLog' = StopLogged(user, seconds, 0)
          /\ UNCHANGED <<isSaving, stops, lastInsert>>
     ELSE /\ Len(stops) < MaxStops
          /\ isSaving' = TRUE
          /\ session' = [session EXCEPT !.endTime = now]
          /\ stops' = Append(stops, "saving")
          /\ lastInsert' = [by |-> PT, minutes |-> PTDurationMinutes(seconds),
                            ran |-> ranFor, ticks |-> seconds]
          /\ stopLog' = StopLogged(user, seconds, 1)
          /\ UNCHANGED seconds
  /\ UNCHANGED <<comp, mounted, user, now, tickInterval, playPauses, ranFor>>

\* The insert settles, with or without an error: setIsSaving(false), then
\* the rest of handleStop: disableWakeLock(), setSeconds(0), a new session.
PTSaveOutcome(log, ok) ==
  IF ok THEN Dispatched(SuccessToast(Settled(log, TRUE)))
  ELSE Settled(log, FALSE)

PTInsertSettles ==
  /\ comp = PT
  /\ stops # <<>>
  /\ \E ok \in BOOLEAN : stopLog' = PTSaveOutcome(stopLog, ok)
  /\ stops' = Tail(stops)
  /\ isSaving' = FALSE
  /\ seconds' = 0
  /\ session' = FreshSession(now)
  /\ UNCHANGED <<comp, mounted, user, now, isRunning, isPaused, tickInterval,
                 playPauses, ranFor, lastInsert>>

\* ------------------------------------------------------------------------
\* MobilePracticeTimer: handleStop and savePracticeSession
\* ------------------------------------------------------------------------
\* What follows `await savePracticeSession()`: the flags and the counter
\* are reset and handleStop suspends at `await disableWakeLock()`.
MPTAfterSave ==
  /\ isRunning' = FALSE
  /\ isPaused' = FALSE
  /\ seconds' = 0

MPTHandleStop ==
  /\ comp = MPT
  /\ StopEnabled
  /\ Len(stops) < MaxStops
  /\ IF SaveSkipped
     THEN /\ MPTAfterSave
          /\ stops' = Append(stops, "releasing")
          /\ stopLog' = StopLogged(user, seconds, 0)
          /\ UNCHANGED <<isSaving, lastInsert>>
     ELSE /\ isSaving' = TRUE
          /\ stops' = Append(stops, "saving")
          /\ lastInsert' = [by |-> MPT,
                            minutes |-> MPTDurationMinutes(session, now),
                            ran |-> ranFor, ticks |-> seconds]
          /\ stopLog' = StopLogged(user, seconds, 1)
          /\ UNCHANGED <<isRunning, isPaused, seconds>>
  /\ UNCHANGED <<comp, mounted, user, now, session, tickInterval, playPauses,
                 ranFor>>

\* `if (error) throw error`, then the success toast; the catch shows the
\* error toast.  No refresh event is dispatched.
MPTSaveOutcome(log, ok) ==
  IF ok THEN SuccessToast(Settled(log, TRUE))
  ELSE ErrorToast(Settled(log, FALSE))

MPTInsertSettles ==
  /\ comp = MPT
  /\ stops # <<>>
  /\ Head(stops) = "saving"
  /\ \E ok \in BOOLEAN : stopLog' = MPTSaveOutcome(stopLog, ok)
  /\ isSaving' = FALSE
  /\ MPTAfterSave
  /\ stops' = <<"releasing">> \o Tail(stops)
  /\ UNCHANGED <<comp, mounted, user, now, session, tickInterval, playPauses,
                 ranFor, lastInsert>>

\* disableWakeLock() has settled: onStop(), by which the Dashboard clears
\* the selected song and so unmounts the timer.
MPTReleaseSettles ==
  /\ comp = MPT
  /\ stops # <<>>
  /\ Head(stops) = "releasing"
  /\ mounted' = FALSE
  /\ stops' = <<>>
  /\ playPauses' = <<>>
  /\ UNCHANGED <<comp, user, now, seconds, isRunning, isPaused, isSaving,
                 session, tickInterval, ranFor, lastInsert, stopLog>>

\* ------------------------------------------------------------------------
\* MobileOptimizedTimer: handleStart, handlePause, handleStop
\* ------------------------------------------------------------------------
\* The Start button is rendered while !isRunning.
MOTHandleStart ==
  /\ comp = MOT
  /\ mounted
  /\ ~isRunning
  /\ IF isPaused
     THEN /\ isPaused' = FALSE
          /\ session' = [session EXCEPT !.pauses = CloseLast(@, now)]
          /\ UNCHANGED <<seconds, ranFor>>
     ELSE /\ seconds' = 0
          /\ session' = FreshSession(now)
          /\ ranFor' = 0
          /\ UNCHANGED isPaused
  /\ isRunning' = TRUE
  /\ tickInterval' = TRUE
  /\ UNCHANGED <<comp, mounted, user, now, isSaving, playPauses, stops,
                 lastInsert, stopLog>>

\* The Pause button is rendered while isRunning.
MOTHandlePause ==
  /\ comp = MOT
  /\ mounted
  /\ isRunning
  /\ Len(session.pauses) < MaxPauses
  /\ isRunning' = FALSE
  /\ isPaused' = TRUE
  /\ tickInterval' = FALSE
  /\ session' = [session EXCEPT !.pauses = PushPause(@, now)]
  /\ UNCHANGED <<comp, mounted, user, now, seconds, isSaving, playPauses,
                 stops, ranFor, lastInsert, stopLog>>

\* handleStop: `if (time === 0 || isSaving) return`; the insert is issued
\* only `if (durationMinutes > 0)`.
MOTHandleStop ==
  /\ comp = MOT
  /\ StopEnabled
  /\ isRunning' = FALSE
  /\ isPaused' = FALSE
  /\ tickInterval' = FALSE
  /\ IF user /\ MOTDurationMinutes(session) > 0
     THEN /\ Len(stops) < MaxStops
          /\ isSaving' = TRUE
          /\ session' = [session EXCEPT !.endTime = now]
          /\ stops' = Append(stops, "saving")
          /\ lastInsert' = [by |-> MOT,
                            minutes |-> MOTDurationMinutes(session),
                            ran |-> ranFor, ticks |-> seconds]
          /\ stopLog' = StopLogged(user, seconds, 1)
          /\ UNCHANGED seconds
     ELSE \* stopMetronome(); setTime(0); a new session
          /\ seconds' = 0
          /\ session' = FreshSession(now)
          /\ stopLog' = SuccessToast(StopLogged(user, seconds, 0))
          /\ UNCHANGED <<isSaving, stops, lastInsert>>
  /\ UNCHANGED <<comp, mounted, user, now, playPauses, ranFor>>

\* The refresh events follow `if (error) throw error`; the catch only
\* logs; handleStop ends with success('Practice session saved
\* successfully!') whatever the save did.
MOTSaveOutcome(log, ok) ==
  IF ok THEN SuccessToast(Dispatched(Settled(log, TRUE)))
  ELSE SuccessToast(Settled(log, FALSE))

MOTInsertSettles ==
  /\ comp = MOT
  /\ stops # <<>>
  /\ \E ok \in BOOLEAN : stopLog' = MOTSaveOutcome(stopLog, ok)
  /\ stops' = Tail(stops)
  /\ isSaving' = FALSE
  /\ seconds' = 0
  /\ session' = FreshSession(now)
  /\ UNCHANGED <<comp, mounted, user, now, isRunning, isPaused, tickInterval,
                 playPauses, ranFor, lastInsert>>

\* ------------------------------------------------------------------------
\* Mounting
\* ------------------------------------------------------------------------
\* The state of a timer component after its mount effects, at time t.
MountedAt(c, u, t) ==
  /\ comp = c
  /\ mounted = TRUE
  /\ user = u
  /\ now = t
  /\ seconds = 0
  /\ isRunning = FALSE
  /\ isPaused = FALSE
  /\ isSaving = FALSE
  /\ session = FreshSession(t)
  /\ tickInterval = FALSE
  /\ playPauses = <<>>
  /\ stops = <<>>
  /\ ranFor = 0
  /\ lastInsert = NoInsert
  /\ stopLog = NoStop

\* A song is selected again after the Dashboard unmounted the timer: a new
\* instance of the component.
Remount ==
  /\ ~mounted
  /\ mounted' = TRUE
  /\ seconds' = 0
  /\ isRunning' = FALSE
  /\ isPaused' = FALSE
  /\ isSaving' = FALSE
  /\ session' = FreshSession(now)
  /\ tickInterval' = FALSE
  /\ playPauses' = <<>>
  /\ stops' = <<>>
  /\ ranFor' = 0
  /\ UNCHANGED <<comp, user, now, lastInsert, stopLog>>

\* ------------------------------------------------------------------------
\* useScreenWakeLock: the hook's state and its pure parts
\* ------------------------------------------------------------------------
\* wake.isWakeLockActive is the React state; wake.noSleepRef tells whether
\* noSleepRef.current holds a NoSleep instance and wake.wakeLockRef is the
\* sentinel wakeLockRef.current holds (NoLock for null).  wake.noSleepOn and
\* wake.engaged are the mechanisms themselves: the fallback being enabled,
\* the native sentinels not yet released.  wake.calls are the
\* enableWakeLock calls suspended at an await, each with who awaits its
\* result: "handler" for handlePlayPause, "nobody" for the calls of the
\* wake-lock effect and of handleVisibilityChange.
NoLock == 0
Locks == 1..MaxLocks

WakeOff ==
  [isWakeLockActive |-> FALSE, noSleepRef |-> FALSE, noSleepOn |-> FALSE,
   wakeLockRef |-> NoLock, engaged |-> {}, calls |-> <<>>]

Platforms == [noSleep : BOOLEAN, native : BOOLEAN]

\* What is kept of an operation: who called an enableWakeLock that ended
\* and with what result, the session state in which the timer called
\* disableWakeLock, whether a page turning visible re-requested the lock in
\* a session, whether the fallback was on when a native lock was released.
WakeEvent(op) ==
  [op |-> op, by |-> "none", result |-> TRUE, branch |-> "none",
   disabledIn |-> "none", requested |-> FALSE, inSession |-> FALSE,
   fallbackOn |-> FALSE]

NoWakeEv == WakeEvent("none")

WakeIdleOn(p) ==
  /\ wake = WakeOff
  /\ platform = p
  /\ visible = TRUE
  /\ wakeEv = NoWakeEv

WakeIdle == WakeIdleOn([noSleep |-> TRUE, native |-> TRUE])

\* "at least one underlying mechanism is currently engaged"
Engaged(w) == w.noSleepOn \/ w.engaged # {}

RemoveAt(seq, i) == SubSeq(seq, 1, i - 1) \o SubSeq(seq, i + 1, Len(seq))

\* The calls in flight are independent of each other and their order means
\* nothing: they are kept as a list ordered by caller and phase.
CallRank(c) ==
  (IF c.by = "handler" THEN 0 ELSE 3)
    + (CASE c.phase = "nosleep" -> 0
         [] c.phase = "native" -> 1
         [] OTHER -> 2)

AddCall(calls, c) ==
  LET before == SelectSeq(calls, LAMBDA d : CallRank(d) <= CallRank(c))
      after == SelectSeq(calls, LAMBDA d : CallRank(d) > CallRank(c))
  IN before \o <<c>> \o after

\* initNoSleep(): new NoSleep() unless an instance exists; the constructor
\* may throw, and the ref then stays null.
InitNoSleep(w) == [w EXCEPT !.noSleepRef = @ \/ platform.noSleep]

\* "Final status update" of a call none of whose methods succeeded.
AllFailedKeepsState(w) == w

AllFailed(w) == [w EXCEPT !.isWakeLockActive = FALSE]

\* Method 2 is reached: navigator.wakeLock.request('screen') is awaited if
\* the API exists.
TryNative(w, by) ==
  IF platform.native
  THEN [w EXCEPT !.calls = AddCall(@, [by |-> by, phase |-> "native"])]
  ELSE AllFailed(w)

\* enableWakeLock() up to its first await.  With neither mechanism there
\* is none: the call runs to its end and its promise, already resolved
\* false, is what the caller awaits ("returned").
EnableCall(w, by) ==
  LET w1 == InitNoSleep(w) IN
  IF w1.noSleepRef
  THEN [w1 EXCEPT !.calls = AddCall(@, [by |-> by, phase |-> "nosleep"])]
  ELSE IF platform.native
  THEN TryNative(w1, by)
  ELSE AllFailed([w1 EXCEPT
                    !.calls = AddCall(@, [by |-> by, phase |-> "returned"])])

\* `await noSleepRef.current.enable()` of call i settles.
NoSleepSettled(w, i, ok) ==
  LET rest == [w EXCEPT !.calls = RemoveAt(@, i)] IN
  IF ok
  THEN [rest EXCEPT !.noSleepOn = TRUE, !.isWakeLockActive = TRUE]
  ELSE TryNative(rest, w.calls[i].by)

FreshLock(w) == CHOOSE id \in Locks : id \notin w.engaged

\* `await navigator.wakeLock.request('screen')` of call i settles.
NativeSettled(w, i, ok) ==
  LET rest == [w EXCEPT !.calls = RemoveAt(@, i)] IN
  IF ok
  THEN [rest EXCEPT !.engaged = @ \cup {FreshLock(w)},
                    !.wakeLockRef = FreshLock(w),
                    !.isWakeLockActive = TRUE]
  ELSE AllFailed(rest)

\* disableWakeLock(): noSleep.disable() if there is an instance, release()
\* of the sentinel wakeLockRef holds, setIsWakeLockActive(false).  The
\* sentinel is released when release() is called and the rest follows in
\* the same turn of the event loop.
Disable(w) ==
  [w EXCEPT !.noSleepOn = IF w.noSleepRef THEN FALSE ELSE @,
            !.engaged = @ \ {w.wakeLockRef},
            !.wakeLockRef = NoLock,
            !.isWakeLockActive = FALSE]

\* The platform releases sentinel id and its 'release' listener runs.
Released(w, id) ==
  [w EXCEPT !.engaged = @ \ {id},
            !.wakeLockRef = NoLock,
            !.isWakeLockActive = IF w.noSleepRef THEN @ ELSE FALSE]

\* The hook's last effect depends on isWakeLockActive: when a render
\* turns it from true to false the cleanup of the previous render runs
\* cleanUp(), which calls disableWakeLock() because its isWakeLockActive
\* is true.
Commit(before, w) ==
  IF mounted /\ before.isWakeLockActive /\ ~w.isWakeLockActive
  THEN Disable(w)
  ELSE w

\* ------------------------------------------------------------------------
\* PracticeTimer with useScreenWakeLock
\* ------------------------------------------------------------------------
SessionState(r, p) == IF r /\ p THEN "Paused" ELSE IF r THEN "Running" ELSE "Idle"

InSession == isRunning \/ isPaused

\* PracticeTimer's wake-lock effect, run after a render that changed
\* isRunning or isPaused: enableWakeLock() while running or paused,
\* disableWakeLock() otherwise.
PTWakeEffectRuns == isRunning' # isRunning \/ isPaused' # isPaused

PTWakeEffectDisables == PTWakeEffectRuns /\ ~(isRunning' \/ isPaused')

PTWakeEffect(w) ==
  IF ~PTWakeEffectRuns THEN w
  ELSE IF isRunning' \/ isPaused' THEN EnableCall(w, "nobody")
  ELSE Disable(w)

\* handlePlayPause with the hook: the start and the resume branch call
\* enableWakeLock() and await it; the pause branch changes isPaused and the
\* effect calls enableWakeLock().
WakePlayPause ==
  /\ comp = PT
  /\ HandlePlayPause
  /\ LET called == IF ~isRunning \/ isPaused
                   THEN EnableCall(wake, "handler")
                   ELSE wake IN
     wake' = Commit(wake, PTWakeEffect(called))
  /\ Len(wake'.calls) <= MaxEnables
  /\ wakeEv' = WakeEvent("other")
  /\ UNCHANGED <<platform, visible>>

\* An enableWakeLock call has come to its end with the given result.  The
\* handler that awaited it runs on, and the render it causes runs the
\* wake-lock effect.
EnableFinished(c, result, w) ==
  /\ IF c.by = "handler" /\ mounted
     THEN /\ PlayPauseContinues
          /\ wake' = Commit(wake, PTWakeEffect(w))
          /\ wakeEv' = [WakeEvent("enabled") EXCEPT
                          !.by = c.by, !.result = result,
                          !.branch = Head(playPauses)]
     ELSE /\ UNCHANGED <<timVars, timHist>>
          /\ wake' = Commit(wake, w)
          /\ wakeEv' = [WakeEvent("enabled") EXCEPT
                          !.by = c.by, !.result = result]
  /\ Len(wake'.calls) <= MaxEnables

EnablePending(w) ==
  /\ UNCHANGED <<timVars, timHist>>
  /\ wake' = w
  /\ wakeEv' = WakeEvent("other")

NoSleepSettles ==
  /\ \E i \in 1..Len(wake.calls), ok \in BOOLEAN :
       /\ wake.calls[i].phase = "nosleep"
       /\ LET w == NoSleepSettled(wake, i, ok) IN
          IF Len(w.calls) < Len(wake.calls)
          THEN EnableFinished(wake.calls[i], ok, w)
          ELSE EnablePending(w)
  /\ UNCHANGED <<platform, visible>>

\* The request is granted only to a visible page.
NativeSettles ==
  /\ \E i \in 1..Len(wake.calls), ok \in BOOLEAN :
       /\ wake.calls[i].phase = "native"
       /\ ok => (visible /\ Cardinality(wake.engaged) < MaxLocks)
       /\ EnableFinished(wake.calls[i], ok, NativeSettled(wake, i, ok))
  /\ UNCHANGED <<platform, visible>>

EnableReturns ==
  /\ \E i \in 1..Len(wake.calls) :
       /\ wake.calls[i].phase = "returned"
       /\ EnableFinished(wake.calls[i], FALSE,
                         [wake EXCEPT !.calls = RemoveAt(@, i)])
  /\ UNCHANGED <<platform, visible>>

\* handleStop with the hook: the render with isRunning and isPaused false
\* runs the wake-lock effect; when nothing is saved handleStop goes on to
\* its own disableWakeLock() in the same turn.
WakeStop ==
  /\ comp = PT
  /\ PTHandleStop
  /\ LET w == PTWakeEffect(wake) IN
     wake' = Commit(wake, IF SaveSkipped THEN Disable(w) ELSE w)
  /\ wakeEv' = [WakeEvent("stop") EXCEPT
                  !.disabledIn = IF PTWakeEffectDisables \/ SaveSkipped
                                 THEN SessionState(isRunning', isPaused')
                                 ELSE "none"]
  /\ UNCHANGED <<platform, visible>>

\* The insert has settled and handleStop goes on: disableWakeLock().
WakeInsertSettles ==
  /\ comp = PT
  /\ PTInsertSettles
  /\ wake' = Commit(wake, Disable(wake))
  /\ wakeEv' = [WakeEvent("stopSettles") EXCEPT
                  !.disabledIn = SessionState(isRunning, isPaused)]
  /\ UNCHANGED <<platform, visible>>

WakeTick ==
  /\ comp = PT
  /\ Tick
  /\ UNCHANGED wakeVars

\* The timer view is unmounted: the cleanup of the mount effect calls
\* disableWakeLock(), the hook's cleanup calls it if isWakeLockActive.
\* The component's state is gone; the calls in flight run on, and a
\* handleStop that awaits its insert still calls disableWakeLock().
WakeUnmount ==
  /\ comp = PT
  /\ mounted
  /\ mounted' = FALSE
  /\ playPauses' = <<>>
  /\ seconds' = 0
  /\ isRunning' = FALSE
  /\ isPaused' = FALSE
  /\ session' = FreshSession(now)
  /\ wake' = Disable(wake)
  /\ wakeEv' = [WakeEvent("unmount") EXCEPT !.disabledIn = "teardown"]
  /\ UNCHANGED <<comp, user, now, isSaving, tickInterval, stops, timHist,
                 platform, visible>>

PlatformReleases ==
  /\ \E id \in wake.engaged :
       /\ wake' = Commit(wake, Released(wake, id))
       /\ wakeEv' = [WakeEvent("released") EXCEPT
                       !.fallbackOn = wake.noSleepOn]
  /\ UNCHANGED <<timVars, timHist, platform, visible>>

PageHidden ==
  /\ visible
  /\ visible' = FALSE
  /\ wakeEv' = WakeEvent("other")
  /\ UNCHANGED <<timVars, timHist, wake, platform>>

\* handleVisibilityChange: `visible && isWakeLockActive`.
VisibilityRequests == mounted /\ wake.isWakeLockActive

PageVisible ==
  /\ ~visible
  /\ visible' = TRUE
  /\ wake' = IF VisibilityRequests THEN EnableCall(wake, "nobody")
             ELSE wake
  /\ Len(wake'.calls) <= MaxEnables
  /\ wakeEv' = [WakeEvent("visible") EXCEPT
                  !.requested = VisibilityRequests,
                  !.inSession = mounted /\ InSession]
  /\ UNCHANGED <<timVars, timHist, platform>>

\* ------------------------------------------------------------------------
\* useDebouncedSlider
\* ------------------------------------------------------------------------
\* The values a slider takes in the model.
SliderValues == {BpmMin, BpmDefault, BpmMax}

\* A save timer created by setTimeout: `by` is the handler that scheduled
\* it, arg the newValue its callback captured (0 for handleEnd's callback,
\* which captures none), ref whether timeoutRef.current is this timer.
\* Equal delays fire in the order of scheduling, so the timers are a queue.
SaveTimer(by, arg) == [by |-> by, arg |-> arg, ref |-> TRUE]

\* The state after the first render with initialValue v.
SliderMounted(v) ==
  [value |-> v, valueRef |-> v, initialValue |-> v,
   isInteracting |-> FALSE, isInteractingRef |-> FALSE,
   isPending |-> FALSE, timers |-> <<>>]

\* The timers left by clearTimeout(timeoutRef.current): the one timer
\* timeoutRef holds is removed; the id of a timer that has fired clears
\* nothing.
ClearRef(timers) == SelectSeq(timers, LAMBDA t : ~t.ref)

\* timeoutRef.current = <another timer>, without clearing: the timers
\* scheduled before stay live and are no longer reachable.
DropRef(timers) == [i \in 1..Len(timers) |-> [timers[i] EXCEPT !.ref = FALSE]]

\* cancelSave()
CancelSave(s) == [s EXCEPT !.timers = ClearRef(@), !.isPending = FALSE]

\* setIsPending(true); timeoutRef.current = setTimeout(callback, debounceMs)
ScheduleSave(s, by, arg) ==
  [s EXCEPT !.isPending = TRUE,
            !.timers = Append(DropRef(@), SaveTimer(by, arg))]

\* handleStart()
HandleStart(s) ==
  CancelSave([s EXCEPT !.isInteractingRef = TRUE, !.isInteracting = TRUE])

\* handleEnd(): the save is scheduled without a cancelSave() before it.
HandleEnd(s) ==
  ScheduleSave([s EXCEPT !.isInteractingRef = FALSE,
                         !.isInteracting = FALSE], "end", 0)

\* handleChange schedules a save at every call.
ChangeAlwaysSchedules(s) == TRUE

\* `if (!isInteractingRef.current)` of handleChange: a change outside an
\* interaction is a programmatic one and schedules a save.
ChangeSchedules(s) == ~s.isInteractingRef

\* handleChange(newValue)
HandleChange(s, v) ==
  LET t == [s EXCEPT !.valueRef = v, !.value = v] IN
  IF ChangeSchedules(t) THEN ScheduleSave(CancelSave(t), "change", v)
  ELSE t

\* The value the callback of timer t hands to onSave: handleEnd's callback
\* reads valueRef.current when it runs, handleChange's passes the newValue
\* it captured.
SavedValue(s, t) == IF t.by = "end" THEN s.valueRef ELSE t.arg

\* The effect on [initialValue]
InitialValueEffect(s, v) ==
  IF s.isInteractingRef THEN [s EXCEPT !.initialValue = v]
  ELSE [s EXCEPT !.initialValue = v, !.value = v, !.valueRef = v]

\* The unmount cleanup: if (timeoutRef.current) clearTimeout(...).
SliderCleanup(s) == [s EXCEPT !.timers = ClearRef(@)]

\* ------------------------------------------------------------------------
\* useDebouncedSlider: observation
\* ------------------------------------------------------------------------
\* The last call or callback of the slider.  For a save: the value handed
\* to onSave, the live value (valueRef.current) and the interaction flag at
\* the moment the timer fired, and whether the component was still mounted.
SliderEvent(op) ==
  [op |-> op, by |-> "none", arg |-> 0, live |-> 0, interacting |-> FALSE,
   mounted |-> TRUE]

\* A debounce window opens when a save is scheduled while none is
\* outstanding: ends counts the onEnd calls of the window, saves the saves
\* fired in it, pure that nothing but onEnd and programmatic onChange calls
\* made before the first save of the window went into it.
\* An interaction is the script onStart, onChange..., onEnd begun while no
\* save is outstanding: stage follows it, changes counts its onChange calls,
\* last is the value of the latest one, isaves the saves fired since
\* onStart.
NoRun ==
  [ends |-> 0, saves |-> 0, pure |-> FALSE,
   stage |-> "none", changes |-> 0, last |-> 0, isaves |-> 0]

\* The counters of a window are kept only while it is pure.
Impure(r) == [r EXCEPT !.pure = FALSE, !.ends = 0, !.saves = 0]

WindowAfterSchedule(r, before, isEnd) ==
  LET n == IF isEnd THEN 1 ELSE 0 IN
  IF before = <<>>
  THEN [r EXCEPT !.ends = n, !.saves = 0, !.pure = TRUE]
  ELSE IF r.pure /\ r.saves = 0 THEN [r EXCEPT !.ends = @ + n]
       ELSE Impure(r)

NoInteraction(r) ==
  [r EXCEPT !.stage = "none", !.changes = 0, !.last = 0, !.isaves = 0]

\* ------------------------------------------------------------------------
\* useDebouncedSlider: actions
\* ------------------------------------------------------------------------
\* onStart (mouse or touch down on the slider)
OnStart ==
  /\ host.mounted
  /\ slider' = HandleStart(slider)
  /\ sliderEv' = SliderEvent("start")
  /\ sliderRun' =
       IF slider'.timers = <<>>
       THEN [NoInteraction(Impure(sliderRun)) EXCEPT !.stage = "started"]
       ELSE NoInteraction(Impure(sliderRun))
  /\ UNCHANGED host

\* onEnd (mouse or touch up)
OnEnd ==
  /\ host.mounted
  /\ Len(slider.timers) < MaxSaveTimers
  /\ slider' = HandleEnd(slider)
  /\ sliderEv' = SliderEvent("end")
  /\ sliderRun' =
       LET w == WindowAfterSchedule(sliderRun, slider.timers, TRUE) IN
       IF sliderRun.stage = "started" /\ sliderRun.changes >= 1
       THEN [w EXCEPT !.stage = "ended"]
       ELSE NoInteraction(w)
  /\ UNCHANGED host

\* onChange(v)
OnChange(v) ==
  /\ host.mounted
  /\ Len(ClearRef(slider.timers)) < MaxSaveTimers
  /\ sliderRun.stage = "started" => sliderRun.changes < MaxChanges
  /\ slider' = HandleChange(slider, v)
  /\ sliderEv' = [SliderEvent("change") EXCEPT !.arg = v]
  /\ sliderRun' =
       IF sliderRun.stage = "started"
       THEN [sliderRun EXCEPT !.changes = @ + 1, !.last = v]
       ELSE IF ChangeSchedules(slider)
            THEN NoInteraction(WindowAfterSchedule(
                                 sliderRun, ClearRef(slider.timers), FALSE))
            ELSE NoInteraction(sliderRun)
  /\ UNCHANGED host

\* The oldest save timer fires: onSave(...), then setIsPending(false).
SaveFires ==
  /\ slider.timers # <<>>
  /\ LET t == Head(slider.timers) IN
     /\ slider' = [slider EXCEPT !.timers = Tail(@), !.isPending = FALSE]
     /\ sliderEv' = [op |-> "save", by |-> t.by,
                     arg |-> SavedValue(slider, t),
                     live |-> slider.valueRef,
                     interacting |-> slider.isInteracting,
                     mounted |-> host.mounted]
     /\ sliderRun' =
          [sliderRun EXCEPT
             !.saves = IF sliderRun.pure THEN @ + 1 ELSE 0,
             !.isaves = IF sliderRun.stage = "none" THEN 0 ELSE @ + 1,
             !.stage = IF @ = "ended" THEN "saved" ELSE @]
  /\ host' = IF host.mounted THEN host
             ELSE [host EXCEPT !.fired = "save"]

\* The component is rendered with another initialValue.
InitialValueChanges ==
  \E v \in SliderValues \ {slider.initialValue} :
    /\ host.mounted
    /\ slider' = InitialValueEffect(slider, v)
    /\ sliderEv' = [SliderEvent("initialValue") EXCEPT !.arg = v]
    /\ sliderRun' = NoInteraction(Impure(sliderRun))
    /\ UNCHANGED host

\* The component is unmounted.
SliderUnmount ==
  /\ host.mounted
  /\ host' = [host EXCEPT !.mounted = FALSE]
  /\ slider' = SliderCleanup(slider)
  /\ sliderEv' = SliderEvent("unmount")
  /\ sliderRun' = NoInteraction(Impure(sliderRun))

\* ------------------------------------------------------------------------
\* PracticeTimer: the notes field and its debounced auto-save
\* ------------------------------------------------------------------------
\* song.notes is a string or null; the texts the notes field takes in the
\* model.
Null == "null"
NoteTexts == {"", "a", "ab"}

\* No debounce timer is pending.
NoTimer == "none"

\* song.notes || ''
OrEmpty(x) == IF x = Null THEN "" ELSE x

\* songNotes !== song.notes
NotesDiffer(songNotes, saved) == songNotes # saved

\* The auto-save effect after a render: its cleanup cancels the debounced
\* call of the render before (useToast returns a new `success` at every
\* render, so debouncedSaveNotes is a new debounced function each time and
\* the effect runs after every render), then the text is handed to the new
\* debounced function when it differs from song.notes.
AutoSaveEffect(songNotes, saved) ==
  IF NotesDiffer(songNotes, saved) THEN songNotes ELSE NoTimer

\* The debounce timer and the tick interval both wait 1000 ms, so the one
\* created first fires first.  After a render that re-creates the interval
\* (the timer effect, whose dependencies are isRunning, isPaused and seconds)
\* the debounce timer is the older one: the auto-save effect is declared
\* before the timer effect.  After any other render the interval is older.
DueFirst(timer, tickLive, intervalRecreated) ==
  IF timer = NoTimer \/ ~tickLive THEN "notes"
  ELSE IF intervalRecreated THEN "notes" ELSE "tick"

\* The state of the field after the first render of a component mounted
\* with song.notes = saved (the auto-save effect has run once).
NotesMounted(saved) ==
  [songNotes |-> OrEmpty(saved), saved |-> saved,
   timer |-> AutoSaveEffect(OrEmpty(saved), saved),
   due |-> "notes", updates |-> <<>>]

\* Observation: the last operation on the field, the text the user typed
\* last, whether an update carrying it has been issued since, and how many
\* ticks in a row have put off the save that is pending.
NotesEvent(op) ==
  [op |-> op, typed |-> NoTimer, issued |-> FALSE, postponed |-> 0]

\* The component renders again with the notes state n: the auto-save effect
\* runs (see AutoSaveEffect).
Rendered(n, tickLive, intervalRecreated) ==
  LET timer == AutoSaveEffect(n.songNotes, n.saved) IN
  [n EXCEPT !.timer = timer,
            !.due = DueFirst(timer, tickLive, intervalRecreated)]

\* A step of the timer of PracticeTimer, followed by the render it causes.
\* The interval is re-created when isRunning, isPaused or seconds changed.
NotesAfterTimerStep ==
  /\ notes' = Rendered(notes, TickLive', <<isRunning, isPaused, seconds>> #
                                         <<isRunning', isPaused', seconds'>>)
  /\ notesEv' = [notesEv EXCEPT !.op = "render", !.postponed = 0]

\* onChange of the textarea: setSongNotes(text).
NotesEdit ==
  \E text \in NoteTexts \ {notes.songNotes} :
    /\ mounted
    /\ comp = PT
    /\ notes' = Rendered([notes EXCEPT !.songNotes = text], TickLive, FALSE)
    /\ notesEv' = [NotesEvent("edit") EXCEPT !.typed = text]
    /\ UNCHANGED <<timVars, timHist>>

\* The debounce timer fires: `if (!user) return`, else the update of
\* songs.notes is issued and awaited.
NotesSaveFires ==
  /\ notes.timer # NoTimer
  /\ TickLive => notes.due = "notes"
  /\ user => Len(notes.updates) < MaxUpdates
  /\ notes' = [notes EXCEPT
                 !.timer = NoTimer,
                 !.due = "notes",
                 !.updates = IF user THEN Append(@, notes.timer) ELSE @]
  /\ notesEv' = [notesEv EXCEPT
                   !.op = "save",
                   !.issued = @ \/ (user /\ notes.timer = notesEv.typed),
                   !.postponed = 0]
  /\ UNCHANGED <<timVars, timHist>>

\* The update settles.  On success onSongUpdated({ notes }) makes the
\* Dashboard pass the song with the saved notes, the effect on [song.id,
\* song.notes] sets songNotes to them, and the success toast renders the
\* component again; on failure the error is logged.
NotesUpdateSettles ==
  /\ notes.updates # <<>>
  /\ \E ok \in BOOLEAN :
       LET text == Head(notes.updates)
           n == [notes EXCEPT !.updates = Tail(@)] IN
       /\ notes' =
            IF ~ok \/ ~mounted THEN n
            ELSE Rendered([n EXCEPT
                             !.saved = text,
                             !.songNotes = IF text # notes.saved
                                           THEN OrEmpty(text) ELSE @],
                          TickLive, FALSE)
       /\ notesEv' = [notesEv EXCEPT !.op = IF ok THEN "saved" ELSE "failed",
                                     !.postponed = 0]
  /\ UNCHANGED <<timVars, timHist>>

\* The interval callback of PracticeTimer runs while no older debounce
\* timer is due; the render it causes re-creates the interval and puts the
\* pending save off.
NotesTick ==
  /\ comp = PT
  /\ now < MaxNoteTicks
  /\ notes.timer # NoTimer => notes.due = "tick"
  /\ Ticks(1)
  /\ notes' = Rendered(notes, TRUE, TRUE)
  /\ notesEv' = [notesEv EXCEPT
                   !.op = "tick",
                   !.postponed = IF notes.timer # NoTimer /\
                                    notes'.timer = notes.timer
                                 THEN @ + 1 ELSE 0]

NotesPlayPause == comp = PT /\ HandlePlayPause /\ NotesAfterTimerStep
NotesPlayPauseContinues ==
  comp = PT /\ PlayPauseContinues /\ NotesAfterTimerStep

\* ------------------------------------------------------------------------
\* useKeyboardShortcuts
\* ------------------------------------------------------------------------
\* A registered shortcut.  The optional fields are "true", "false", or
\* "undef" where the literal leaves them out.
Shortcut(key, ctrlKey, shiftKey, action, preventDefault) ==
  [key |-> key, ctrlKey |-> ctrlKey, altKey |-> "undef",
   shiftKey |-> shiftKey, metaKey |-> "undef", action |-> action,
   preventDefault |-> preventDefault]

\* The list of useAppKeyboardShortcuts.
AppShortcuts ==
  << Shortcut("n", "true", "undef", "onNewSong", "undef"),
     Shortcut("n", "true", "true", "onNewFolder", "undef"),
     Shortcut(",", "true", "undef", "onOpenSettings", "undef"),
     Shortcut("k", "true", "undef", "onToggleSearch", "undef"),
     Shortcut("Escape", "undef", "undef", "onEscape", "false") >>

\* The list of usePracticeTimerShortcuts.
TimerShortcuts ==
  << Shortcut(" ", "undef", "undef", "onPlayPause", "undef"),
     Shortcut("s", "undef", "undef", "onStop", "undef"),
     Shortcut("m", "undef", "undef", "onToggleMetronome", "undef"),
     Shortcut("f", "undef", "undef", "onToggleFullscreen", "undef") >>

ShortcutLists == {AppShortcuts, TimerShortcuts}

\* The values of event.key in the model.
EventKeys == {"n", "N", "k", "K", ",", "Escape", " ", "s", "S", "x"}

\* String.prototype.toLowerCase on the keys of the model.
ToLowerCase(k) ==
  CASE k = "N" -> "n"
    [] k = "K" -> "k"
    [] k = "S" -> "s"
    [] k = "Escape" -> "escape"
    [] OTHER -> k

\* !!x of an optional boolean
Truthy(x) == x = "true"

\* The keys compare equal as they are, and the shift key is not compared.
ShortcutMatchesLoosely(sc, ev) ==
  /\ sc.key = ev.key
  /\ Truthy(sc.ctrlKey) = ev.ctrlKey
  /\ Truthy(sc.altKey) = ev.altKey
  /\ Truthy(sc.metaKey) = ev.metaKey

\* The predicate handed to shortcuts.find.
ShortcutMatches(sc, ev) ==
  /\ ToLowerCase(sc.key) = ToLowerCase(ev.key)
  /\ Truthy(sc.ctrlKey) = ev.ctrlKey
  /\ Truthy(sc.altKey) = ev.altKey
  /\ Truthy(sc.shiftKey) = ev.shiftKey
  /\ Truthy(sc.metaKey) = ev.metaKey

\* shortcuts.find(...): the index of the first match, 0 for undefined.
Find(shortcuts, ev) ==
  LET hits == {i \in 1..Len(shortcuts) : ShortcutMatches(shortcuts[i], ev)}
  IN IF hits = {} THEN 0
     ELSE CHOOSE i \in hits : \A j \in hits : i <= j

\* A keydown event: the key, the modifiers, whether event.target and
\* document.activeElement are an INPUT, a TEXTAREA or content-editable.
KeyEvents ==
  [key : EventKeys, ctrlKey : BOOLEAN, altKey : BOOLEAN, shiftKey : BOOLEAN,
   metaKey : BOOLEAN, targetIsText : BOOLEAN, activeIsText : BOOLEAN]

\* handleKeyDown(event): the actions it invokes, in order, and whether it
\* calls event.preventDefault().
HandleKeyDown(shortcuts, enabled, ev) ==
  LET none == [invoked |-> <<>>, prevented |-> FALSE]
      i == Find(shortcuts, ev) IN
  IF ~enabled THEN none
  ELSE IF ev.targetIsText THEN none
  ELSE IF ev.activeIsText THEN none
  ELSE IF i = 0 THEN none
  ELSE [invoked |-> <<shortcuts[i].action>>,
        prevented |-> shortcuts[i].preventDefault # "false"]

\* The hook after its first render with the given props: the effect adds
\* the keydown listener only when enabled.
KbdMounted(shortcuts, enabled) ==
  [shortcuts |-> shortcuts, enabled |-> enabled, listening |-> enabled]

NoKeyDown == [op |-> "mount"]

\* A keydown event reaches the document: the listener, when there is one,
\* is the handleKeyDown of the current render.
KeyDown ==
  \E ev \in KeyEvents :
    /\ kbdEv' = [op |-> "keydown", event |-> ev,
                 result |-> IF kbd.listening
                            THEN HandleKeyDown(kbd.shortcuts, kbd.enabled, ev)
                            ELSE [invoked |-> <<>>, prevented |-> FALSE]]
    /\ UNCHANGED kbd

\* The component renders with another value of `enabled`: the effect's
\* cleanup removes the listener and the effect adds the new one if enabled.
SetEnabled ==
  /\ kbd' = KbdMounted(kbd.shortcuts, ~kbd.enabled)
  /\ kbdEv' = [op |-> "props"]

\* ------------------------------------------------------------------------
\* Specifications of the metronome
\* ------------------------------------------------------------------------
\* Tempi a caller passes to updateSettings in the general specification.
BpmInputs == {BpmMin, BpmMax}

TempoPartials == {[bpm |-> b] : b \in BpmInputs} \cup
                 {[accent |-> a] : a \in BOOLEAN}

InitMetWith(s, ctx) ==
  /\ isPlaying = FALSE
  /\ settings = s
  /\ audioCtx = ctx
  /\ intervalRef = 0
  /\ intervals = {}
  /\ beatCountRef = 0
  /\ currentBeat = 0
  /\ startInProgressRef = FALSE
  /\ pendingStarts = <<>>
  /\ toggleInProgressRef = FALSE
  /\ toggleResets = 0
  /\ restartTimers = <<>>
  /\ lastEv = [op |-> "mount", res |-> "mounted"]
  /\ lastPulse = NoPulse
  /\ pulsesSinceStart = 0
  /\ startedWith = s
  /\ sinceStop = "na"
  /\ restartDue = 0

\* A component that uses hook h, after its first render with initialValue v.
HostOf(h) == [hook |-> h, mounted |-> TRUE, fired |-> "none"]

SliderAt(h, v) ==
  /\ host = HostOf(h)
  /\ slider = SliderMounted(v)
  /\ sliderEv = SliderEvent("mount")
  /\ sliderRun = NoRun

SliderIdle == SliderAt("none", BpmDefault)

NotesAt(saved) ==
  /\ notes = NotesMounted(saved)
  /\ notesEv = NotesEvent("mount")

KbdAt(shortcuts, enabled) ==
  /\ kbd = KbdMounted(shortcuts, enabled)
  /\ kbdEv = NoKeyDown

\* The parts a specification does not exercise, at rest.
WidgetsIdle == SliderIdle /\ NotesAt("") /\ KbdAt(AppShortcuts, TRUE)

\* The metronome specifications leave the timer alone and the timer
\* specification leaves the metronome alone.
TimerIdle == MountedAt(PT, TRUE, 0)
MetIdle == InitMetWith(DefaultSettings, "suspended")

\* After mount: the defaults of the hook; the audio context the mount
\* effect created is suspended or running, or could not be created.
Init ==
  \E ctx \in {"none", "suspended", "running"} :
    InitMetWith(DefaultSettings, ctx) /\ TimerIdle /\ WakeIdle
    /\ WidgetsIdle

TimerUntouched == UNCHANGED <<timVars, timHist>>
WakeUntouched == UNCHANGED wakeVars
MetronomeUntouched == UNCHANGED <<metVars, metHist>>
WidgetsUntouched == UNCHANGED <<host, sliderVars, notesVars, kbdVars>>

Next ==
  \/ Start /\ TimerUntouched /\ WakeUntouched /\ WidgetsUntouched
  \/ ResumeResolves /\ TimerUntouched /\ WakeUntouched /\ WidgetsUntouched
  \/ ResumeRejects /\ TimerUntouched /\ WakeUntouched /\ WidgetsUntouched
  \/ IntervalFires /\ TimerUntouched /\ WakeUntouched /\ WidgetsUntouched
  \/ Stop /\ TimerUntouched /\ WakeUntouched /\ WidgetsUntouched
  \/ Toggle /\ TimerUntouched /\ WakeUntouched /\ WidgetsUntouched
  \/ ToggleResetFires /\ TimerUntouched /\ WakeUntouched /\ WidgetsUntouched
  \/ RestartFires /\ TimerUntouched /\ WakeUntouched /\ WidgetsUntouched
  \/ AudioSuspended /\ TimerUntouched /\ WakeUntouched /\ WidgetsUntouched
  \/ (\E partial \in TempoPartials : UpdateSettings(partial)) /\ TimerUntouched /\ WakeUntouched
       /\ WidgetsUntouched

Spec == Init /\ [][Next]_vars


\* The metronome as a control mounted with a song's tempo: any tempo of the
\* slider's range is the configured one (MobileMetronomeControl passes
\* initialBpm to updateSettings before the first render completes).
InitTempo ==
  \E b \in BpmMin..BpmMax, ctx \in {"none", "suspended", "running"} :
    InitMetWith(Merge(DefaultSettings, [bpm |-> b]), ctx) /\ TimerIdle
    /\ WakeIdle /\ WidgetsIdle

\* updateSettings while the engine is not playing (no restart is asked for).
UpdateWhileStopped(partial) == ~isPlaying /\ UpdateSettings(partial)

NextTempo ==
  \/ Start /\ TimerUntouched /\ WakeUntouched /\ WidgetsUntouched
  \/ ResumeResolves /\ TimerUntouched /\ WakeUntouched /\ WidgetsUntouched
  \/ ResumeRejects /\ TimerUntouched /\ WakeUntouched /\ WidgetsUntouched
  \/ IntervalFires /\ TimerUntouched /\ WakeUntouched /\ WidgetsUntouched
  \/ Stop /\ TimerUntouched /\ WakeUntouched /\ WidgetsUntouched
  \/ AudioSuspended /\ TimerUntouched /\ WakeUntouched /\ WidgetsUntouched
  \/ (\E b \in BpmInputs : UpdateWhileStopped([bpm |-> b])) /\ TimerUntouched /\ WakeUntouched
       /\ WidgetsUntouched

SpecTempo == InitTempo /\ [][NextTempo]_vars

\* ------------------------------------------------------------------------
\* Specification of the practice timers
\* ------------------------------------------------------------------------
\* One of the three timer components is mounted, for a signed-in user or
\* for none.
InitTimer ==
  /\ MetIdle
  /\ WakeIdle
  /\ WidgetsIdle
  /\ \E c \in Components, u \in BOOLEAN : MountedAt(c, u, 0)

NextTimer ==
  \/ Tick /\ MetronomeUntouched /\ WakeUntouched /\ WidgetsUntouched
  \/ TicksForQuantum /\ MetronomeUntouched /\ WakeUntouched /\ WidgetsUntouched
  \/ TimePasses /\ MetronomeUntouched /\ WakeUntouched /\ WidgetsUntouched
  \/ HandlePlayPause /\ MetronomeUntouched /\ WakeUntouched /\ WidgetsUntouched
  \/ PlayPauseContinues /\ MetronomeUntouched /\ WakeUntouched
       /\ WidgetsUntouched
  \/ PTHandleStop /\ MetronomeUntouched /\ WakeUntouched /\ WidgetsUntouched
  \/ PTInsertSettles /\ MetronomeUntouched /\ WakeUntouched /\ WidgetsUntouched
  \/ MPTHandleStop /\ MetronomeUntouched /\ WakeUntouched /\ WidgetsUntouched
  \/ MPTInsertSettles /\ MetronomeUntouched /\ WakeUntouched /\ WidgetsUntouched
  \/ MPTReleaseSettles /\ MetronomeUntouched /\ WakeUntouched
       /\ WidgetsUntouched
  \/ MOTHandleStart /\ MetronomeUntouched /\ WakeUntouched /\ WidgetsUntouched
  \/ MOTHandlePause /\ MetronomeUntouched /\ WakeUntouched /\ WidgetsUntouched
  \/ MOTHandleStop /\ MetronomeUntouched /\ WakeUntouched /\ WidgetsUntouched
  \/ MOTInsertSettles /\ MetronomeUntouched /\ WakeUntouched /\ WidgetsUntouched
  \/ Remount /\ MetronomeUntouched /\ WakeUntouched /\ WidgetsUntouched

SpecTimer == InitTimer /\ [][NextTimer]_vars

\* ------------------------------------------------------------------------
\* Specification of PracticeTimer with the wake lock
\* ------------------------------------------------------------------------
InitWake ==
  /\ MetIdle
  /\ WidgetsIdle
  /\ \E u \in BOOLEAN, p \in Platforms :
       MountedAt(PT, u, 0) /\ WakeIdleOn(p)

NextWake ==
  \/ WakePlayPause /\ MetronomeUntouched /\ WidgetsUntouched
  \/ NoSleepSettles /\ MetronomeUntouched /\ WidgetsUntouched
  \/ NativeSettles /\ MetronomeUntouched /\ WidgetsUntouched
  \/ EnableReturns /\ MetronomeUntouched /\ WidgetsUntouched
  \/ WakeStop /\ MetronomeUntouched /\ WidgetsUntouched
  \/ WakeInsertSettles /\ MetronomeUntouched /\ WidgetsUntouched
  \/ WakeTick /\ MetronomeUntouched /\ WidgetsUntouched
  \/ WakeUnmount /\ MetronomeUntouched /\ WidgetsUntouched
  \/ PlatformReleases /\ MetronomeUntouched /\ WidgetsUntouched
  \/ PageHidden /\ MetronomeUntouched /\ WidgetsUntouched
  \/ PageVisible /\ MetronomeUntouched /\ WidgetsUntouched

SpecWake == InitWake /\ [][NextWake]_vars

\* ------------------------------------------------------------------------
\* Specification of useDebouncedSlider
\* ------------------------------------------------------------------------
OthersUntouched ==
  /\ MetronomeUntouched
  /\ TimerUntouched
  /\ WakeUntouched
  /\ UNCHANGED <<notesVars, kbdVars>>

InitSlider ==
  /\ MetIdle
  /\ TimerIdle
  /\ WakeIdle
  /\ NotesAt("")
  /\ KbdAt(AppShortcuts, TRUE)
  /\ \E v \in SliderValues : SliderAt("useDebouncedSlider", v)

NextSlider ==
  \/ OnStart /\ OthersUntouched
  \/ OnEnd /\ OthersUntouched
  \/ (\E v \in SliderValues : OnChange(v)) /\ OthersUntouched
  \/ SaveFires /\ OthersUntouched
  \/ InitialValueChanges /\ OthersUntouched
  \/ SliderUnmount /\ OthersUntouched

SpecSlider == InitSlider /\ [][NextSlider]_vars

\* ------------------------------------------------------------------------
\* Specification of the teardown of a component using one of the hooks
\* ------------------------------------------------------------------------
\* A callback of the hook has run: it is recorded when the component has
\* been unmounted before.
Leaked(kind) == IF host.mounted THEN host ELSE [host EXCEPT !.fired = kind]

\* The unmount cleanup of useMetronome: the timer intervalRef holds is
\* cleared; intervalRef keeps its value, and neither a start() suspended at
\* its await nor the timers of toggle() and updateSettings() are touched.
MetronomeUnmount ==
  /\ host.mounted
  /\ host' = [host EXCEPT !.mounted = FALSE]
  /\ intervals' = {t \in intervals : t.id # intervalRef}
  /\ lastEv' = [op |-> "unmount", res |-> "unmounted"]
  /\ UNCHANGED <<isPlaying, settings, audioCtx, intervalRef, beatCountRef,
                 currentBeat, startInProgressRef, pendingStarts,
                 toggleInProgressRef, toggleResets, restartTimers, lastPulse,
                 pulsesSinceStart, startedWith, sinceStop, restartDue>>

UsesMetronome == host.hook = "useMetronome"
UsesSlider == host.hook = "useDebouncedSlider"

\* Event handlers run only while the component is mounted; timers and
\* promise continuations run whenever they are due.
MetronomeHandler == UsesMetronome /\ host.mounted /\ UNCHANGED host

TeardownFrame ==
  /\ TimerUntouched
  /\ WakeUntouched
  /\ UNCHANGED <<sliderVars, notesVars, kbdVars>>

InitTeardown ==
  /\ TimerIdle
  /\ WakeIdle
  /\ NotesAt("")
  /\ KbdAt(AppShortcuts, TRUE)
  /\ \/ /\ \E ctx \in {"suspended", "running"} :
             InitMetWith(DefaultSettings, ctx)
        /\ SliderAt("useMetronome", BpmDefault)
     \/ /\ MetIdle
        /\ \E v \in SliderValues : SliderAt("useDebouncedSlider", v)

NextTeardown ==
  \/ MetronomeHandler /\ Start /\ TeardownFrame
  \/ MetronomeHandler /\ Stop /\ TeardownFrame
  \/ MetronomeHandler /\ Toggle /\ TeardownFrame
  \/ MetronomeHandler /\ (\E b \in BpmInputs : UpdateSettings([bpm |-> b]))
       /\ TeardownFrame
  \/ UsesMetronome /\ ResumeResolves /\ host' = Leaked("pulse")
       /\ TeardownFrame
  \/ UsesMetronome /\ ResumeRejects /\ UNCHANGED host
       /\ TeardownFrame
  \/ UsesMetronome /\ IntervalFires /\ host' = Leaked("pulse")
       /\ TeardownFrame
  \/ UsesMetronome /\ ToggleResetFires /\ UNCHANGED host
       /\ TeardownFrame
  \/ UsesMetronome /\ RestartFires
       /\ host' = (IF lastEv'.res = "started" THEN Leaked("pulse") ELSE host)
       /\ TeardownFrame
  \/ UsesMetronome /\ MetronomeUnmount /\ TeardownFrame
  \/ UsesSlider /\ OnStart /\ OthersUntouched
  \/ UsesSlider /\ OnEnd /\ OthersUntouched
  \/ UsesSlider /\ (\E v \in SliderValues : OnChange(v)) /\ OthersUntouched
  \/ UsesSlider /\ SaveFires /\ OthersUntouched
  \/ UsesSlider /\ InitialValueChanges /\ OthersUntouched
  \/ UsesSlider /\ SliderUnmount /\ OthersUntouched

SpecTeardown == InitTeardown /\ [][NextTeardown]_vars

\* ------------------------------------------------------------------------
\* Specification of PracticeTimer with its notes field
\* ------------------------------------------------------------------------
NotesFrame ==
  /\ MetronomeUntouched
  /\ WakeUntouched
  /\ UNCHANGED <<host, sliderVars, kbdVars>>

InitNotes ==
  /\ MetIdle
  /\ WakeIdle
  /\ SliderIdle
  /\ KbdAt(TimerShortcuts, TRUE)
  /\ \E u \in BOOLEAN, saved \in {Null, "", "a"} :
       MountedAt(PT, u, 0) /\ NotesAt(saved)

NextNotes ==
  \/ NotesEdit /\ NotesFrame
  \/ NotesSaveFires /\ NotesFrame
  \/ NotesUpdateSettles /\ NotesFrame
  \/ NotesTick /\ NotesFrame
  \/ NotesPlayPause /\ NotesFrame
  \/ NotesPlayPauseContinues /\ NotesFrame

SpecNotes == InitNotes /\ [][NextNotes]_vars

\* ------------------------------------------------------------------------
\* Specification of useKeyboardShortcuts
\* ------------------------------------------------------------------------
KbdFrame ==
  /\ MetronomeUntouched
  /\ TimerUntouched
  /\ WakeUntouched
  /\ UNCHANGED <<host, sliderVars, notesVars>>

InitKbd ==
  /\ MetIdle
  /\ TimerIdle
  /\ WakeIdle
  /\ SliderIdle
  /\ NotesAt("")
  /\ \E shortcuts \in ShortcutLists, enabled \in BOOLEAN :
       KbdAt(shortcuts, enabled)

NextKbd ==
  \/ KeyDown /\ KbdFrame
  \/ SetEnabled /\ KbdFrame

SpecKbd == InitKbd /\ [][NextKbd]_vars

\* ------------------------------------------------------------------------
\* Claims about the metronome
\* ------------------------------------------------------------------------
\* A toggle() call has suspended at `await start()` and has not settled.
TogglePending ==
  \E i \in 1..Len(pendingStarts) : pendingStarts[i].via = "toggle"

\* C1: a toggle() call made while an earlier toggle() call is still awaiting
\* start() has no effect: it changes no state of the engine, so the playing
\* state changes once (when the first call's start settles) and no second
\* timer, of any kind, is scheduled by the second call.
C1_SecondToggleIgnored ==
  [][(lastEv'.op = "toggle" /\ TogglePending) => UNCHANGED metVars]_vars

C1_Witness ==
  /\ lastEv = [op |-> "toggle", res |-> "ignored"]
  /\ TogglePending
  /\ ~isPlaying

\* C2: at most one repeating pulse timer is live at any time, and it is the
\* one intervalRef holds: start() never schedules a timer while an earlier
\* one has not been cleared.
C2_AtMostOneTimer ==
  /\ Cardinality(intervals) <= 1
  /\ \A t \in intervals : t.id = intervalRef
  /\ (intervalRef = 0) <=> (intervals = {})

C2_Witness ==
  /\ lastEv = [op |-> "start", res |-> "noop"]
  /\ isPlaying
  /\ Cardinality(intervals) = 1

\* C3: when the 50 ms restart of an updateSettings({bpm: b}) call made while
\* running has fired, with no other call in between and the audio context
\* usable, the engine is playing again, with one timer of period 60000/b.
C3_RestartsAtNewTempo ==
  (lastEv.op = "restart" /\ restartDue # 0
     /\ lastEv.res \notin {"pending", "rejected"})
  => /\ isPlaying
     /\ Cardinality(intervals) = 1
     /\ \A t \in intervals : t.period = IntervalMs(restartDue)

\* C4: after a stop() call, and until start() is called again, isPlaying is
\* false and no pulse is emitted.
C4_StopHalts ==
  sinceStop # "na" => (~isPlaying /\ sinceStop = "quiet")

\* C5: when start() has rejected (no audio context, or resume() failed),
\* isPlaying is false, no pulse timer exists and startInProgressRef is
\* clear.
C5_FailedStartCleansUp ==
  lastEv.res = "rejected"
  => /\ ~isPlaying
     /\ ~startInProgressRef
     /\ intervals = {}
     /\ intervalRef = 0

C5_Witness ==
  /\ lastEv = [op |-> "resume", res |-> "rejected"]
  /\ pendingStarts = <<>>

\* C6: for every tempo of 40..200 configured when start() is called, a
\* start that succeeds has emitted its first pulse at once (pulse 0, by
\* start itself, before any firing of the timer) and its timer has the
\* period 60000/bpm of that tempo.
C6_PeriodAndFirstPulse ==
  /\ \A t \in intervals :
       /\ t.period.den > 0
       /\ t.period.num * startedWith.bpm = MsPerMinute * t.period.den
  /\ intervals # {} => pulsesSinceStart >= 1
  /\ lastEv.res = "started"
       => /\ intervals # {}
          /\ pulsesSinceStart = 1
          /\ lastPulse.by = "start"
          /\ lastPulse.beat = 0

C6_Witness ==
  /\ lastEv.res = "started"
  /\ startedWith.bpm = 77
  /\ \E t \in intervals : t.period = [num |-> 60000, den |-> 77]

\* C7: every pulse, the pulsesSinceStart-th since start, is an accent pulse
\* iff the accent setting is true and its index is a multiple of the time
\* signature; it has frequency 800 and gain 1.2 x volume if so, 400 and
\* 1.0 x volume if not (read right after the pulse is emitted).
C7_AccentRule ==
  (lastEv.op = "pulse" \/ lastEv.res = "started")
  => LET idx == pulsesSinceStart - 1
         acc == settings.accent /\ (idx % settings.timeSignature = 0) IN
     /\ lastPulse.accent = acc
     /\ lastPulse.frequency = (IF acc THEN 800 ELSE 400)
     /\ lastPulse.gain = settings.volume * (IF acc THEN 12 ELSE 10)

\* ------------------------------------------------------------------------
\* Claims about the practice timers (checked under SpecTimer)
\* ------------------------------------------------------------------------
OpenPauses ==
  Cardinality({i \in 1..Len(session.pauses) : session.pauses[i].end = NoEnd})

\* C8: in every reachable state of PracticeTimer and MobilePracticeTimer the
\* session's pauses hold at most one pause without an end, and a pause
\* without an end exists only while the timer is Paused; the states during
\* and after a stop are included.
C8_OpenPauseOnlyWhilePaused ==
  (mounted /\ comp \in {PT, MPT}) =>
    /\ OpenPauses <= 1
    /\ OpenPauses = 1 => Paused

\* C9: the duration PracticeTimer and MobilePracticeTimer persist on stop is
\* max(1, round(R / 60)) minutes, R being the wall-clock seconds between
\* start and stop that were not spent paused; it does not follow the tick
\* counter.
C9_DurationIsWallClock ==
  (lastInsert # NoInsert /\ lastInsert.by \in {PT, MPT}) =>
    lastInsert.minutes = Max(1, Round60(lastInsert.ran))

\* C10: every practice_sessions insert issued by PracticeTimer,
\* MobilePracticeTimer or MobileOptimizedTimer carries duration_minutes,
\* an integer, of at least 1.
C10_InsertAtLeastOneMinute ==
  lastInsert # NoInsert => (lastInsert.minutes \in Int /\ lastInsert.minutes >= 1)

\* C11: for a signed-in user a stop issues exactly one practice_sessions
\* insert when the elapsed seconds are above 0 and none when they are 0.
C11_OneInsertPerStop ==
  (stopLog # NoStop /\ stopLog.signedIn) =>
    stopLog.inserts = (IF stopLog.ticks > 0 THEN 1 ELSE 0)

\* C12: for every stop of a timer component refreshAnalytics and
\* refreshGoals are each dispatched exactly once if the insert succeeded,
\* and not before it has completed; neither is dispatched when the insert
\* failed or none was issued.
C12_RefreshAfterSuccessfulInsert ==
  stopLog # NoStop =>
    LET n == IF stopLog.outcome = "ok" THEN 1 ELSE 0 IN
    stopLog.refreshAnalytics = n /\ stopLog.refreshGoals = n

\* C13: when the insert fails at stop an error notification is shown, no
\* success notification is shown, and the insert is not issued again.
C13_FailedSaveIsReported ==
  (stopLog # NoStop /\ stopLog.outcome = "failed") =>
    /\ stopLog.errorToasts >= 1
    /\ stopLog.successToasts = 0
    /\ stopLog.inserts = 1

\* ------------------------------------------------------------------------
\* Claims about the wake lock (checked under SpecWake)
\* ------------------------------------------------------------------------
\* C14: PracticeTimer never calls disableWakeLock while the session is
\* Running or Paused; the lock is released only by stop or teardown, also
\* when a start is pressed while the previous stop's save is in flight.
C14_NoDisableDuringSession ==
  wakeEv.disabledIn \notin {"Running", "Paused"}

\* C15: once the calls in flight have settled, isWakeLockActive is true if
\* and only if at least one mechanism (the NoSleep fallback or a native
\* lock not yet released) is engaged.
C15_StateMatchesMechanisms ==
  (mounted /\ wake.calls = <<>>) => (wake.isWakeLockActive <=> Engaged(wake))

\* C16: when the platform releases the native lock and the fallback is not
\* engaged, isWakeLockActive becomes false.
C16_ReleaseFlipsState ==
  (wakeEv.op = "released" /\ ~wakeEv.fallbackOn /\ mounted
     /\ wake.engaged = {}) =>
    ~wake.isWakeLockActive

\* C17: whenever the page becomes visible again while the session is
\* Running or Paused, the wake lock is re-requested.
C17_VisibleRerequests ==
  (wakeEv.op = "visible" /\ wakeEv.inSession) => wakeEv.requested

\* C18: after disableWakeLock with no enable in flight no mechanism is
\* engaged, every native lock any earlier enableWakeLock acquired is
\* released, and isWakeLockActive is false.
C18_DisableReleasesEverything ==
  (wakeEv.disabledIn # "none" /\ wake.calls = <<>>) =>
    (~Engaged(wake) /\ ~wake.isWakeLockActive)

\* C19: an enableWakeLock call whose mechanisms all fail or are absent
\* resolves false, isWakeLockActive is false afterwards, and the
\* PracticeTimer handler that awaited it to start has moved the timer to
\* Running.
C19_FailedEnableTolerated ==
  (wakeEv.op = "enabled" /\ ~wakeEv.result) =>
    /\ ~wake.isWakeLockActive
    /\ wakeEv.branch = "start" => (isRunning /\ ~isPaused)

C19_Witness ==
  /\ wakeEv.op = "enabled"
  /\ ~wakeEv.result
  /\ wakeEv.branch = "start"
  /\ isRunning
  /\ ~wake.isWakeLockActive

\* C20: after the timer view is unmounted and the enable calls in flight
\* have settled, no wake-lock mechanism remains engaged.
C20_NothingEngagedAfterUnmount ==
  (~mounted /\ wake.calls = <<>>) => ~Engaged(wake)

\* ------------------------------------------------------------------------
\* Claims about useDebouncedSlider (checked under SpecSlider)
\* ------------------------------------------------------------------------
\* C22: the save callback is never invoked while isInteracting is true; a
\* save that was scheduled before onStart is cancelled by it and never
\* fires.
C22_NoSaveWhileInteracting ==
  sliderEv.op = "save" => ~sliderEv.interacting

\* C23: isPending is true if and only if a save is scheduled that has
\* neither fired nor been cancelled.
C23_PendingIffScheduled ==
  host.mounted => (slider.isPending <=> slider.timers # <<>>)

\* C24: when onEnd is called several times within one debounce window, with
\* or without a programmatic onChange before, each onEnd cancels the save
\* scheduled before it, so no more than one save fires (and one is left to
\* fire until it has).
C24_EndsCoalesce ==
  (sliderRun.pure /\ sliderRun.ends >= 2) =>
     sliderRun.saves + Len(slider.timers) = 1

\* C25: onStart, n >= 1 calls of onChange and one onEnd, with no further
\* event, invoke the save callback exactly once, with the value of the last
\* onChange call, and not before onEnd.
C25_SingleInteraction ==
  /\ sliderRun.stage \in {"started", "ended"} => sliderRun.isaves = 0
  /\ sliderRun.stage = "ended" => Len(slider.timers) = 1
  /\ sliderRun.stage = "saved" =>
        /\ sliderRun.isaves = 1
        /\ slider.timers = <<>>
        /\ sliderEv.op = "save"
        /\ sliderEv.arg = sliderRun.last

C25_Witness ==
  /\ sliderRun.stage = "saved"
  /\ sliderRun.changes = MaxChanges
  /\ sliderEv.op = "save"
  /\ sliderEv.arg = sliderRun.last
  /\ sliderEv.arg # slider.initialValue

\* C26: every invocation of the save callback passes the live value as it
\* is when the timer fires, not the value captured when the save was
\* scheduled, for saves scheduled by onEnd and by a programmatic onChange.
C26_SaveReadsLiveValue ==
  sliderEv.op = "save" => sliderEv.arg = sliderEv.live

\* ------------------------------------------------------------------------
\* Claims about teardown (checked under SpecTeardown)
\* ------------------------------------------------------------------------
\* C21: after a component using useMetronome or useDebouncedSlider has been
\* unmounted, no metronome pulse is emitted and no debounced save callback
\* is invoked any more.
C21_NothingFiresAfterUnmount == host.fired = "none"

\* ------------------------------------------------------------------------
\* Claims about the notes field (checked under SpecNotes)
\* ------------------------------------------------------------------------
\* The user has typed a text that differs from song.notes and no update
\* carrying it has been issued since.
NotesUnsaved ==
  /\ mounted
  /\ user
  /\ notesEv.typed # NoTimer
  /\ notesEv.typed # notes.saved
  /\ ~notesEv.issued

\* The save of the text typed last is pending, and the ticks of the running
\* timer have put it off once at most: it is the next timer to fire.
NotesSaveDue ==
  /\ notes.timer = notesEv.typed
  /\ notesEv.postponed <= 1
  /\ (TickLive /\ notes.due = "tick") => notesEv.postponed = 0

\* C27: after the notes are edited to a text different from the last-saved
\* notes and left unchanged, an update carrying the final text is issued
\* after the debounce delay, also while the timer is Running and ticking
\* (until it is issued, the save stays due and no tick can put it off for
\* good); an edit changes neither the timer state nor the elapsed seconds.
C27_NotesAutoSaved ==
  /\ [](NotesUnsaved => NotesSaveDue)
  /\ [][notesEv'.op = "edit" =>
          UNCHANGED <<seconds, isRunning, isPaused>>]_vars

\* ------------------------------------------------------------------------
\* Claims about useKeyboardShortcuts (checked under SpecKbd)
\* ------------------------------------------------------------------------
\* Pairs of keys that differ in case only.
CasePairs == {{"n", "N"}, {"k", "K"}, {"s", "S"}}

SameKeyIgnoringCase(a, b) == a = b \/ {a, b} \in CasePairs

\* Each of ctrl, alt, shift and meta is held exactly when the shortcut
\* declares it.
SameModifiers(sc, ev) ==
  /\ (sc.ctrlKey = "true") <=> ev.ctrlKey
  /\ (sc.altKey = "true") <=> ev.altKey
  /\ (sc.shiftKey = "true") <=> ev.shiftKey
  /\ (sc.metaKey = "true") <=> ev.metaKey

\* C28: on a keydown, an action is invoked if and only if the hook is
\* enabled, neither the target nor the focused element is a text input, and
\* some shortcut matches the key case-insensitively and the four modifiers
\* exactly; the action is that of the first matching shortcut and the only
\* one invoked, so Ctrl+N and Ctrl+Shift+N invoke different actions.
C28_ShortcutDispatch ==
  kbdEv.op = "keydown" =>
    LET ev == kbdEv.event
        sc == kbd.shortcuts
        invoked == kbdEv.result.invoked
        matching == {i \in 1..Len(sc) :
                       SameKeyIgnoringCase(sc[i].key, ev.key) /\
                       SameModifiers(sc[i], ev)}
        listens == kbd.enabled /\ ~ev.targetIsText /\ ~ev.activeIsText
        plainCtrl == ev.ctrlKey /\ ~ev.altKey /\ ~ev.metaKey
    IN /\ Len(invoked) <= 1
       /\ invoked # <<>> <=> (listens /\ matching # {})
       /\ invoked # <<>> =>
            \E i \in matching :
              /\ \A j \in matching : i <= j
              /\ invoked[1] = sc[i].action
       /\ (listens /\ sc = AppShortcuts /\ plainCtrl /\ ev.key \in {"n", "N"})
            => invoked = IF ev.shiftKey THEN <<"onNewFolder">>
                         ELSE <<"onNewSong">>

C28_Witness ==
  /\ kbdEv.op = "keydown"
  /\ kbdEv.event.key = "N"
  /\ kbdEv.event.ctrlKey
  /\ kbdEv.event.shiftKey
  /\ kbdEv.result.invoked = <<"onNewFolder">>


\* A step of handleStop: the call itself or the continuation of its save.
StopStep ==
  \/ PTHandleStop \/ PTInsertSettles
  \/ MPTHandleStop \/ MPTInsertSettles \/ MPTReleaseSettles
  \/ MOTHandleStop \/ MOTInsertSettles

\* A step of one or more 1 s ticks: each tick adds one to the counter and
\* one second to the clock.
TickStep == seconds' - seconds = now' - now /\ seconds' > seconds

\* C29: the displayed counter of a mounted timer grows only by ticks of +1
\* taken while the session is Running and not Paused; a pause or a resume
\* leaves it unchanged; no tick is taken while Paused or Idle; it goes back
\* to 0 only in a step of handleStop.
C29_TickGating ==
  [][(mounted /\ mounted' /\ seconds' # seconds) =>
       \/ TickStep /\ Running /\ ~Paused
            /\ UNCHANGED <<isRunning, isPaused>>
       \/ seconds' = 0 /\ StopStep]_vars


\* C30: a pulse the running interval emits after updateSettings changed
\* accent, timeSignature or volume is the pulse of the updated settings at
\* its beat: accent, frequency and gain follow the current settings without
\* a stop and a start in between (read right after the pulse is emitted).
C30_SettingsLiveWhileRunning ==
  lastEv = [op |-> "pulse", res |-> "interval"]
  => LET now_ == Pulse(settings, lastPulse.beat, "interval") IN
     /\ lastPulse.accent = now_.accent
     /\ lastPulse.frequency = now_.frequency
     /\ lastPulse.gain = now_.gain

====
